---- MODULE Spec2Model ----
(***************************************************************************)
(* Fire-and-Smoke: the per-frame colour classifier detect_fire_smoke       *)
(* (fire_smoke_detection.py) and the host loop, alert log and alarm        *)
(* threads of app.py.                                                      *)
(*                                                                         *)
(* A frame is held run-length encoded: a sequence of runs <<pixel, n>>,    *)
(* n pixels of one colour, a pixel being its three 8-bit channels in the   *)
(* order they lie in memory.  Masks are run-length encoded the same way,   *)
(* so the pixel counts are those of full 100x100 frames.                   *)
(* A frame buffer is its pixels plus the list of texts drawn on            *)
(* it; buffers live in a heap and are passed by reference, as in Python.   *)
(***************************************************************************)
EXTENDS Integers, Sequences, FiniteSets, TLC

VARIABLES
    heap,           \* buffer id -> [pixels, overlay]
    fire_arg,       \* the fire_thresh the caller passes
    smoke_arg,      \* the smoke_thresh the caller passes
    pc,             \* the caller's position: "ready", "returned", "compared";
                    \* the host loop's: "loop", "frame", "exited"
    call,           \* the arguments of the last call, as they were on entry
    result,         \* the last value detect_fire_smoke returned
    first,          \* the result kept from the call on the original buffer
    captured,       \* number of frames handed to the classifier so far
    log,            \* alert_log.csv: whether it exists, and its rows
    clock,          \* datetime.now(), in seconds
    iters,          \* iterations of the host loop so far
    alarm_running,  \* app.py global
    threads,        \* start_alarm threads: position -> number of threads there
    plays,          \* pygame.mixer.music.play calls since the last stop_alarm
    IS_CLOUD,       \* app.py global, fixed at start-up
    alarm_file      \* whether alarm.wav.wav exists

classifier_vars == <<heap, fire_arg, smoke_arg, pc, call, result, first, captured>>
host_vars == <<log, clock, iters, alarm_running, threads, plays,
               IS_CLOUD, alarm_file>>
vars == <<heap, fire_arg, smoke_arg, pc, call, result, first, captured,
          log, clock, iters, alarm_running, threads, plays,
          IS_CLOUD, alarm_file>>

----------------------------------------------------------------------------
(* Bounds of the model *)

MaxFrames == 2
MaxIters == 2
MaxThreads == 2

----------------------------------------------------------------------------
(* Values *)

\* Python's None where a string is expected: no chunks at all (every message
\* of the program has chunks, so None differs from each of them)
None == <<>>
\* no buffer
NoBuf == "none"
\* alert_log.csv does not exist
Absent == [exists |-> FALSE, rows |-> <<>>]

fire_thresh_default == 5000
smoke_thresh_default == 5000

\* "\U0001F525 Fire Detected!" and "\U0001F4A8 Smoke Detected!": a string is a
\* sequence of chunks, each pure ASCII or pure non-ASCII.
FIRE_MSG == << [ascii |-> FALSE, text |-> "U+1F525"],
               [ascii |-> TRUE, text |-> " Fire Detected!"] >>
SMOKE_MSG == << [ascii |-> FALSE, text |-> "U+1F4A8"],
                [ascii |-> TRUE, text |-> " Smoke Detected!"] >>

lower_red1 == <<0, 150, 150>>
upper_red1 == <<10, 255, 255>>
lower_red2 == <<160, 150, 150>>
upper_red2 == <<180, 255, 255>>
lower_yellow == <<20, 150, 150>>
upper_yellow == <<35, 255, 255>>
lower_smoke == <<0, 0, 180>>
upper_smoke == <<180, 50, 255>>

\* Pixels, by the channels as stored (first, second, third byte).
Palette ==
    { <<0, 0, 255>>, <<255, 0, 0>>, <<200, 200, 200>>, <<0, 0, 0>>,
      <<0, 255, 255>>,
      <<0, 50, 150>>, <<0, 55, 150>>, <<0, 95, 150>>, <<0, 100, 150>>,
      <<0, 150, 125>>, <<0, 150, 120>>, <<105, 0, 150>>, <<100, 0, 150>>,
      <<0, 0, 149>>, <<106, 106, 255>>, <<105, 105, 255>>,
      <<205, 205, 255>>, <<204, 204, 255>>, <<179, 179, 179>> }
CorePalette ==
    { <<0, 0, 255>>, <<255, 0, 0>>, <<200, 200, 200>>, <<0, 0, 0>> }
RunSizes == {4999, 5000, 5001}
Thresholds == {0, 4999, 5000}

Frames ==
    { <<r>> : r \in Palette \X RunSizes }
    \cup { <<r1, r2>> : r1 \in CorePalette \X RunSizes, r2 \in CorePalette \X RunSizes }

\* What the camera of the host loop delivers.
CameraFrames ==
    { << <<<<0, 0, 255>>, 5001>> >>, << <<<<200, 200, 200>>, 5001>> >>,
      << <<<<255, 0, 0>>, 5001>> >>,
      << <<<<0, 0, 255>>, 5000>>, <<<<200, 200, 200>>, 5000>> >> }

Buffer(pixels) == [pixels |-> pixels, overlay |-> <<>>]

NoResult == [frame |-> NoBuf, alert_msg |-> None, severity |-> 0]
\* the start_alarm threads, counted by the line they stand at
NoThreads == [check |-> 0, set |-> 0, exists |-> 0, play |-> 0, done |-> 0]

NoCall == [frame |-> NoBuf, before |-> Buffer(<<>>), fire_thresh |-> 0, smoke_thresh |-> 0]

----------------------------------------------------------------------------
(* OpenCV operations used by detect_fire_smoke *)

\* saturate_cast<int>(n / d) for n, d > 0: round to nearest (no ties occur here)
cvRound(n, d) == (2 * n + d) \div (2 * d)

sdiv_table(i) == IF i = 0 THEN 0 ELSE cvRound(255 * 4096, i)
hdiv_table180(i) == IF i = 0 THEN 0 ELSE cvRound(180 * 4096, 6 * i)

Max3(a, b, c) == IF a >= b /\ a >= c THEN a ELSE IF b >= c THEN b ELSE c
Min3(a, b, c) == IF a <= b /\ a <= c THEN a ELSE IF b <= c THEN b ELSE c

\* One pixel, blue = b, green = g, red = r, to 8-bit <<H, S, V>>, H in 0..179
HSVofBGR(b, g, r) ==
    LET v == Max3(b, g, r)
        vmin == Min3(b, g, r)
        diff == v - vmin
        s == (diff * sdiv_table(v) + 2048) \div 4096
        h0 == IF v = r THEN g - b
              ELSE IF v = g THEN b - r + 2 * diff
              ELSE r - g + 4 * diff
        h1 == (h0 * hdiv_table180(diff) + 2048) \div 4096
        h == IF h1 < 0 THEN h1 + 180 ELSE h1
    IN  <<h, s, v>>

\* cv2.COLOR_RGB2HSV: the first channel is taken as red
COLOR_RGB2HSV(px) == HSVofBGR(px[3], px[2], px[1])

\* cv2.COLOR_BGR2HSV: the first channel is taken as blue
COLOR_BGR2HSV(px) == HSVofBGR(px[1], px[2], px[3])

\* the conversion code of the other channel order
cvtColor_RGB(pixels) ==
    [i \in DOMAIN pixels |-> <<COLOR_RGB2HSV(pixels[i][1]), pixels[i][2]>>]

\* cv2.cvtColor(frame, cv2.COLOR_BGR2HSV)
cvtColor(pixels) ==
    [i \in DOMAIN pixels |-> <<COLOR_BGR2HSV(pixels[i][1]), pixels[i][2]>>]

InBounds(px, lower, upper) ==
    \A c \in 1..3 : lower[c] <= px[c] /\ px[c] <= upper[c]

\* cv2.inRange: 255 where every channel lies within its inclusive bounds
inRange(hsv, lower, upper) ==
    [i \in DOMAIN hsv |->
        <<IF InBounds(hsv[i][1], lower, upper) THEN 255 ELSE 0, hsv[i][2]>>]

\* cv2.bitwise_or of two masks of the same frame
bitwise_or(m1, m2) ==
    [i \in DOMAIN m1 |->
        <<IF m1[i][1] # 0 \/ m2[i][1] # 0 THEN 255 ELSE 0, m1[i][2]>>]

RECURSIVE countNonZero(_)
countNonZero(mask) ==
    IF mask = <<>> THEN 0
    ELSE (IF Head(mask)[1] # 0 THEN Head(mask)[2] ELSE 0) + countNonZero(Tail(mask))

\* cv2.putText(frame, text, org, font, scale, color, thickness): draws in place
putText(buf, text, org, color) ==
    [buf EXCEPT !.overlay = Append(@, [text |-> text, org |-> org, color |-> color])]

----------------------------------------------------------------------------
(* detect_fire_smoke *)

fire_mask_no_wrap(hsv) ==
    bitwise_or(inRange(hsv, lower_red1, upper_red1),
               inRange(hsv, lower_yellow, upper_yellow))

fire_mask(hsv) ==
    LET red_mask1 == inRange(hsv, lower_red1, upper_red1)
        red_mask2 == inRange(hsv, lower_red2, upper_red2)
        red_mask == bitwise_or(red_mask1, red_mask2)
        yellow_mask == inRange(hsv, lower_yellow, upper_yellow)
    IN  bitwise_or(red_mask, yellow_mask)

smoke_mask(hsv) == inRange(hsv, lower_smoke, upper_smoke)

FireAlert == [alert_msg |-> FIRE_MSG, severity |-> 5,
              draw |-> <<[text |-> "FIRE ALERT!", org |-> <<50, 50>>, color |-> <<0, 0, 255>>]>>]
SmokeAlert == [alert_msg |-> SMOKE_MSG, severity |-> 3,
               draw |-> <<[text |-> "SMOKE ALERT!", org |-> <<50, 50>>, color |-> <<255, 255, 255>>]>>]
NoAlert == [alert_msg |-> None, severity |-> 0, draw |-> <<>>]

\* smoke tested before fire
DetermineAlerts_smoke_first(fire_pixels, smoke_pixels, fire_thresh, smoke_thresh) ==
    IF smoke_pixels > smoke_thresh THEN SmokeAlert
    ELSE IF fire_pixels > fire_thresh THEN FireAlert
    ELSE NoAlert

\* thresholds compared with >=
DetermineAlerts_ge(fire_pixels, smoke_pixels, fire_thresh, smoke_thresh) ==
    IF fire_pixels >= fire_thresh THEN FireAlert
    ELSE IF smoke_pixels >= smoke_thresh THEN SmokeAlert
    ELSE NoAlert

\* the docstring's severity range 1-5 taken literally
DetermineAlerts_sev1(fire_pixels, smoke_pixels, fire_thresh, smoke_thresh) ==
    IF fire_pixels > fire_thresh THEN FireAlert
    ELSE IF smoke_pixels > smoke_thresh THEN SmokeAlert
    ELSE [NoAlert EXCEPT !.severity = 1]

\* an alert already reported by the previous call is not reported again
DetermineAlerts_dedupe(fire_pixels, smoke_pixels, fire_thresh, smoke_thresh) ==
    IF fire_pixels > fire_thresh /\ result.alert_msg # FIRE_MSG THEN FireAlert
    ELSE IF smoke_pixels > smoke_thresh /\ result.alert_msg # SMOKE_MSG THEN SmokeAlert
    ELSE NoAlert

\* the smoke branch pasted from the fire branch, its overlay left unchanged
DetermineAlerts_pasted(fire_pixels, smoke_pixels, fire_thresh, smoke_thresh) ==
    IF fire_pixels > fire_thresh THEN FireAlert
    ELSE IF smoke_pixels > smoke_thresh THEN [SmokeAlert EXCEPT !.draw = FireAlert.draw]
    ELSE NoAlert

\* lines 13-14 and 45-54: the label, the severity and the text to draw
DetermineAlerts(fire_pixels, smoke_pixels, fire_thresh, smoke_thresh) ==
    IF fire_pixels > fire_thresh THEN FireAlert
    ELSE IF smoke_pixels > smoke_thresh THEN SmokeAlert
    ELSE NoAlert

OtherBuf(frame) == IF frame = "cap" THEN "copy" ELSE "cap"

\* the frame is copied first: the overlay goes on, and the return value is,
\* another buffer
detect_fire_smoke_on_copy(frame, fire_thresh, smoke_thresh) ==
    LET hsv == cvtColor(heap[frame].pixels)
        a == DetermineAlerts(countNonZero(fire_mask(hsv)), countNonZero(smoke_mask(hsv)),
                             fire_thresh, smoke_thresh)
        out == OtherBuf(frame)
        drawn == IF a.draw = <<>> THEN Buffer(heap[frame].pixels)
                 ELSE putText(Buffer(heap[frame].pixels),
                              a.draw[1].text, a.draw[1].org, a.draw[1].color)
    IN  [heap |-> [heap EXCEPT ![out] = drawn],
         ret |-> [frame |-> out, alert_msg |-> a.alert_msg, severity |-> a.severity]]

\* detect_fire_smoke(frame, fire_thresh, smoke_thresh): frame is a reference
\* into the heap; yields the heap after the call and the returned triple.
detect_fire_smoke(frame, fire_thresh, smoke_thresh) ==
    LET hsv == cvtColor(heap[frame].pixels)
        fire_pixels == countNonZero(fire_mask(hsv))
        smoke_pixels == countNonZero(smoke_mask(hsv))
        a == DetermineAlerts(fire_pixels, smoke_pixels, fire_thresh, smoke_thresh)
        drawn == IF a.draw = <<>> THEN heap[frame]
                 ELSE putText(heap[frame], a.draw[1].text, a.draw[1].org, a.draw[1].color)
    IN  [heap |-> [heap EXCEPT ![frame] = drawn],
         ret |-> [frame |-> frame, alert_msg |-> a.alert_msg, severity |-> a.severity]]

----------------------------------------------------------------------------
(* A caller of the classifier: passes a frame, then a separate copy of it *)

Entry(frame) == [frame |-> frame, before |-> heap[frame],
                 fire_thresh |-> fire_arg, smoke_thresh |-> smoke_arg]

HostIdle ==
    /\ log = Absent /\ clock = 0 /\ iters = 0
    /\ alarm_running = FALSE /\ threads = NoThreads /\ plays = 0
    /\ IS_CLOUD = FALSE /\ alarm_file = TRUE

Init ==
    /\ \E f \in Frames : heap = [cap |-> Buffer(f), copy |-> Buffer(f)]
    /\ fire_arg = fire_thresh_default
    /\ smoke_arg = smoke_thresh_default
    /\ pc = "ready"
    /\ call = NoCall
    /\ result = NoResult
    /\ first = NoResult
    /\ captured = 1
    /\ HostIdle

\* the caller takes a new frame and a copy of it
Capture(f) ==
    /\ pc \in {"returned", "compared"}
    /\ captured < MaxFrames
    /\ heap' = [cap |-> Buffer(f), copy |-> Buffer(f)]
    /\ pc' = "ready"
    /\ captured' = captured + 1
    /\ first' = NoResult
    /\ call' = NoCall
    /\ UNCHANGED <<fire_arg, smoke_arg, result>>
    /\ UNCHANGED host_vars

\* the caller chooses other thresholds for the next call
Configure(ft, st) ==
    /\ pc = "ready"
    /\ <<ft, st>> # <<fire_arg, smoke_arg>>
    /\ fire_arg' = ft
    /\ smoke_arg' = st
    /\ UNCHANGED <<heap, pc, call, result, first, captured>>
    /\ UNCHANGED host_vars

\* detect_fire_smoke(frame, fire_arg, smoke_arg)
Detect ==
    /\ pc = "ready"
    /\ LET r == detect_fire_smoke("cap", fire_arg, smoke_arg)
       IN  /\ heap' = r.heap
           /\ result' = r.ret
    /\ call' = Entry("cap")
    /\ pc' = "returned"
    /\ UNCHANGED <<fire_arg, smoke_arg, first, captured>>
    /\ UNCHANGED host_vars

\* detect_fire_smoke(copy, fire_arg, smoke_arg), the copy taken before the first call
DetectCopy ==
    /\ pc = "returned"
    /\ LET r == detect_fire_smoke("copy", fire_arg, smoke_arg)
       IN  /\ heap' = r.heap
           /\ result' = r.ret
    /\ call' = Entry("copy")
    /\ first' = result
    /\ pc' = "compared"
    /\ UNCHANGED <<fire_arg, smoke_arg, captured>>
    /\ UNCHANGED host_vars

Next ==
    \/ \E f \in Frames : Capture(f)
    \/ \E ft \in Thresholds, st \in Thresholds : Configure(ft, st)
    \/ Detect
    \/ DetectCopy

Spec == Init /\ [][Next]_vars

----------------------------------------------------------------------------
(* Properties of the classifier *)

\* result is what the call described by `call` returned
Returned == pc \in {"returned", "compared"}

FirePixels == countNonZero(fire_mask(cvtColor(call.before.pixels)))
SmokePixels == countNonZero(smoke_mask(cvtColor(call.before.pixels)))
Drawn == heap[call.frame].overlay

FireText == [text |-> "FIRE ALERT!", org |-> <<50, 50>>, color |-> <<0, 0, 255>>]
SmokeText == [text |-> "SMOKE ALERT!", org |-> <<50, 50>>, color |-> <<255, 255, 255>>]

RECURSIVE TotalPixels(_)
TotalPixels(pixels) ==
    IF pixels = <<>> THEN 0 ELSE Head(pixels)[2] + TotalPixels(Tail(pixels))

AllPixels(pixels, px) == \A i \in DOMAIN pixels : pixels[i][1] = px

DefaultThresholds ==
    call.fire_thresh = fire_thresh_default /\ call.smoke_thresh = smoke_thresh_default

\* C1: whenever the fire-mask count exceeds fire_thresh the call returns the
\* fire message with severity 5 and draws exactly "FIRE ALERT!" at (50,50) in
\* red (BGR 0,0,255), whatever the smoke count: nothing of the smoke branch.
C1_FireTakesPrecedence ==
    (Returned /\ FirePixels > call.fire_thresh) =>
        /\ result.alert_msg = FIRE_MSG
        /\ result.severity = 5
        /\ Drawn = <<FireText>>

C1_Witness ==
    /\ Returned
    /\ FirePixels > call.fire_thresh
    /\ SmokePixels > call.smoke_thresh
    /\ result.alert_msg = FIRE_MSG

\* C2: smoke count above smoke_thresh and fire count at most fire_thresh gives
\* the smoke message, severity 3 and exactly "SMOKE ALERT!" at (50,50) in white.
C2_SmokeAlert ==
    (Returned /\ SmokePixels > call.smoke_thresh /\ FirePixels <= call.fire_thresh) =>
        /\ result.alert_msg = SMOKE_MSG
        /\ result.severity = 3
        /\ Drawn = <<SmokeText>>

C2_Witness ==
    /\ Returned
    /\ SmokePixels > call.smoke_thresh
    /\ FirePixels = call.fire_thresh
    /\ FirePixels > 0
    /\ Drawn = <<SmokeText>>

C5_FirstChannelIsRed ==
    (Returned /\ AllPixels(call.before.pixels, <<255, 0, 0>>)
        /\ TotalPixels(call.before.pixels) = 10000 /\ DefaultThresholds) =>
        /\ FirePixels = 10000
        /\ result.alert_msg = FIRE_MSG
        /\ result.severity = 5

\* C5 amended: the conversion takes the first channel as blue and the third as
\* red: a 100x100 frame of stored pixels (0,0,255) counts 10,000 fire pixels
\* and is reported as fire with severity 5 under the default thresholds, and
\* one of stored pixels (255,0,0) counts none and raises no alert.
C5_FirstChannelIsBlue ==
    (Returned /\ TotalPixels(call.before.pixels) = 10000 /\ DefaultThresholds) =>
        /\ AllPixels(call.before.pixels, <<0, 0, 255>>) =>
                /\ FirePixels = 10000
                /\ result.alert_msg = FIRE_MSG
                /\ result.severity = 5
        /\ AllPixels(call.before.pixels, <<255, 0, 0>>) =>
                /\ FirePixels = 0
                /\ result.alert_msg = None

C5_Witness ==
    /\ Returned
    /\ AllPixels(call.before.pixels, <<0, 0, 255>>)
    /\ TotalPixels(call.before.pixels) = 10000
    /\ DefaultThresholds
    /\ result.alert_msg = FIRE_MSG

InFireBands(px) ==
    /\ \/ (0 <= px[1] /\ px[1] <= 10)
       \/ (160 <= px[1] /\ px[1] <= 180)
       \/ (20 <= px[1] /\ px[1] <= 35)
    /\ 150 <= px[2] /\ px[2] <= 255
    /\ 150 <= px[3] /\ px[3] <= 255

\* C8: a pixel is in the fire mask, and counted in fire_pixels, iff its HSV
\* value has hue in 0..10, 160..180 or 20..35 together with saturation and
\* value both in 150..255.
C8_FireBands ==
    Returned =>
        LET hsv == cvtColor(call.before.pixels)
            mask == fire_mask(hsv)
            counted == {i \in DOMAIN hsv : InFireBands(hsv[i][1])}
        IN  /\ \A i \in DOMAIN hsv : (mask[i][1] # 0) <=> (i \in counted)
            /\ FirePixels = TotalPixels([i \in DOMAIN hsv |->
                                <<hsv[i][1], IF i \in counted THEN hsv[i][2] ELSE 0>>])

C8_Witness ==
    /\ Returned
    /\ \E i \in DOMAIN call.before.pixels :
            /\ cvtColor(call.before.pixels)[i][1][1] = 160
            /\ FirePixels >= call.before.pixels[i][2]

----------------------------------------------------------------------------
(* app.py: the alert log *)

HeaderRow == [header |-> TRUE, cells |-> <<"Timestamp", "Alert", "Severity", "Image">>]
EntryRow(new_entry) == [header |-> FALSE, cells |-> new_entry]

\* alert_msg.encode("ascii", "ignore").decode(): the non-ASCII chunks are dropped
encode_ascii_ignore(msg) == SelectSeq(msg, LAMBDA c : c.ascii)

\* f"alert_{datetime.now().strftime('%Y%m%d_%H%M%S')}.jpg"
image_filename(t) == <<"alert_", t, ".jpg">>

\* the header is written on every call
log_alert_header_always(alert_msg, severity, image_path, now) ==
    [exists |-> TRUE,
     rows |-> log.rows \o <<HeaderRow,
                           EntryRow(<<now, encode_ascii_ignore(alert_msg), severity, image_path>>)>>]

\* log_alert(alert_msg, severity, image_path), datetime.now() being `now`:
\* the file after the call
log_alert(alert_msg, severity, image_path, now) ==
    LET clean_msg == IF alert_msg # None THEN encode_ascii_ignore(alert_msg) ELSE <<>>
        new_entry == <<now, clean_msg, severity, image_path>>
        file_exists == log.exists
    IN  [exists |-> TRUE,
         rows |-> log.rows
                  \o (IF ~file_exists THEN <<HeaderRow>> ELSE <<>>)
                  \o <<EntryRow(new_entry)>>]

\* a log left by an earlier run of the program
PreviousLog ==
    [exists |-> TRUE,
     rows |-> <<HeaderRow,
                EntryRow(<<0, encode_ascii_ignore(FIRE_MSG), 5, image_filename(0)>>)>>]

----------------------------------------------------------------------------
(* app.py: the host loop, the sidebar buttons and the start_alarm threads *)

HostInit ==
    /\ heap = [cap |-> Buffer(<<>>), copy |-> Buffer(<<>>)]
    /\ fire_arg = fire_thresh_default
    /\ smoke_arg = smoke_thresh_default
    /\ pc = "loop"
    /\ call = NoCall
    /\ result = NoResult
    /\ first = NoResult
    /\ captured = 0
    /\ log \in {Absent, PreviousLog}
    /\ clock = 1
    /\ iters = 0
    /\ alarm_running = FALSE
    /\ threads = NoThreads
    /\ plays = 0
    /\ IS_CLOUD \in BOOLEAN
    /\ alarm_file \in BOOLEAN

Started == threads.check + threads.set + threads.exists + threads.play + threads.done

\* threading.Thread(target=start_alarm, daemon=True).start()
Spawn == [threads EXCEPT !.check = @ + 1]

\* one thread steps from one line of start_alarm to another
Move(from, to) == [threads EXCEPT ![from] = @ - 1, ![to] = @ + 1]

\* ret, frame = camera.read() with ret true (line 166)
CameraRead(f) ==
    /\ pc = "loop"
    /\ iters < MaxIters
    /\ heap' = [heap EXCEPT !["cap"] = Buffer(f)]
    /\ pc' = "frame"
    /\ UNCHANGED <<fire_arg, smoke_arg, call, result, first, captured>>
    /\ UNCHANGED host_vars

\* camera.read() with ret false: the loop is left (lines 167-169)
CameraFails ==
    /\ pc = "loop"
    /\ pc' = "exited"
    /\ UNCHANGED <<heap, fire_arg, smoke_arg, call, result, first, captured>>
    /\ UNCHANGED host_vars

\* the rest of the pass (lines 171-197): classify with the default thresholds,
\* and on an alert log it and start the alarm thread unless the alarm runs.
\* t1 and t2 are the two readings of datetime.now() (lines 180 and 69).  The
\* snapshot file and the e-mail and WhatsApp threads touch nothing of this state.
ProcessFrame(t1, t2) ==
    /\ pc = "frame"
    /\ LET r == detect_fire_smoke("cap", fire_thresh_default, smoke_thresh_default)
           alert_msg == r.ret.alert_msg
           severity == r.ret.severity
       IN  /\ heap' = r.heap
           /\ result' = r.ret
           /\ IF alert_msg # None
              THEN /\ log' = log_alert(alert_msg, severity, image_filename(t1), t2)
                   /\ clock' = t2
                   /\ IF ~alarm_running
                      THEN Started < MaxThreads /\ threads' = Spawn
                      ELSE UNCHANGED threads
              ELSE UNCHANGED <<log, clock, threads>>
    /\ iters' = iters + 1
    /\ pc' = "loop"
    /\ UNCHANGED <<fire_arg, smoke_arg, call, first, captured>>
    /\ UNCHANGED <<alarm_running, plays, IS_CLOUD, alarm_file>>

\* the Test Alarm button (lines 141-142)
TestAlarm ==
    /\ pc # "exited"
    /\ Started < MaxThreads
    /\ threads' = Spawn
    /\ UNCHANGED classifier_vars
    /\ UNCHANGED <<log, clock, iters, alarm_running, plays, IS_CLOUD, alarm_file>>

\* stop_alarm (lines 54-58), from the Stop Alarm button
stop_alarm ==
    /\ alarm_running' = FALSE
    /\ plays' = 0
    /\ UNCHANGED classifier_vars
    /\ UNCHANGED <<log, clock, iters, threads, IS_CLOUD, alarm_file>>

\* start_alarm, line 37: if alarm_running: return
start_alarm_check ==
    /\ threads.check > 0
    /\ threads' = Move("check", IF alarm_running THEN "done" ELSE "set")
    /\ UNCHANGED classifier_vars
    /\ UNCHANGED <<log, clock, iters, alarm_running, plays, IS_CLOUD, alarm_file>>

\* start_alarm, lines 39-43: alarm_running = True; on the cloud, return
start_alarm_set ==
    /\ threads.set > 0
    /\ alarm_running' = TRUE
    /\ threads' = Move("set", IF IS_CLOUD THEN "done" ELSE "exists")
    /\ UNCHANGED classifier_vars
    /\ UNCHANGED <<log, clock, iters, plays, IS_CLOUD, alarm_file>>

\* start_alarm, lines 45-49: without the alarm file, alarm_running = False; return
start_alarm_exists ==
    /\ threads.exists > 0
    /\ IF alarm_file
       THEN /\ threads' = Move("exists", "play")
            /\ UNCHANGED alarm_running
       ELSE /\ threads' = Move("exists", "done")
            /\ alarm_running' = FALSE
    /\ UNCHANGED classifier_vars
    /\ UNCHANGED <<log, clock, iters, plays, IS_CLOUD, alarm_file>>

\* start_alarm, lines 51-52: pygame.mixer.music.load and play
start_alarm_play ==
    /\ threads.play > 0
    /\ plays' = plays + 1
    /\ threads' = Move("play", "done")
    /\ UNCHANGED classifier_vars
    /\ UNCHANGED <<log, clock, iters, alarm_running, IS_CLOUD, alarm_file>>

HostNext ==
    \/ \E f \in CameraFrames : CameraRead(f)
    \/ CameraFails
    \/ \E t1 \in clock..(clock + 1) : \E t2 \in t1..(clock + 1) : ProcessFrame(t1, t2)
    \/ TestAlarm
    \/ stop_alarm
    \/ start_alarm_check
    \/ start_alarm_set
    \/ start_alarm_exists
    \/ start_alarm_play

HostSpec == HostInit /\ [][HostNext]_vars

----------------------------------------------------------------------------
(* Properties of the host *)

C9_HeaderOnce ==
    /\ ~log.exists => log.rows = <<>>
    /\ log.exists =>
        /\ Len(log.rows) >= 1
        /\ log.rows[1].header
        /\ \A i \in 2..Len(log.rows) : ~log.rows[i].header

C9_Step ==
    LET old == log.rows
        new == log'.rows
    IN  /\ Len(new) >= Len(old)
        /\ SubSeq(new, 1, Len(old)) = old
        /\ IF iters' = iters + 1 /\ result'.alert_msg # None
           THEN /\ log'.exists
                /\ Len(new) = Len(old) + (IF log.exists THEN 1 ELSE 2)
                /\ ~log.exists => new[1].header
                /\ LET row == new[Len(new)]
                   IN  /\ ~row.header
                       /\ Len(row.cells) = 4
                       /\ row.cells[1] \in clock..(clock + 1)
                       /\ row.cells[2] = encode_ascii_ignore(result'.alert_msg)
                       /\ row.cells[3] = result'.severity
                       /\ \E t \in clock..(clock + 1) : row.cells[4] = image_filename(t)
           ELSE log' = log

\* C9: a pass of the host loop whose frame raises an alert appends exactly one
\* record (timestamp, alert text, severity, image) to the log and a pass without
\* alert appends nothing; no step changes or removes a row already written; the
\* header is the first row, written once, only when the file did not exist.
C9_AlertLog == []C9_HeaderOnce /\ [][C9_Step]_vars

C9_Witness ==
    /\ iters = 2
    /\ Len(log.rows) = 3
    /\ log.rows[1].header
    /\ log.rows[2].cells[1] >= 1
    /\ log.rows[2].cells[3] = 5
    /\ log.rows[3].cells[3] = 3
    /\ log.rows[3].cells[2] = <<[ascii |-> TRUE, text |-> " Smoke Detected!"]>>

\* C10: between two consecutive stop_alarm calls the load/play step of
\* start_alarm is reached at most once, under every interleaving of the host
\* loop, the buttons and the start_alarm threads.
C10_AlarmStartedOnce == plays <= 1

====
